---- MODULE Spec2Model ----
(***************************************************************************)
(* A model of the accessible-modal core of the component library: the      *)
(* useFocusTrap hook (src/src/hooks/use-focus-trap.ts), the Portal         *)
(* component (its effect, cleanup and render guard, src/unnamed/part_008)  *)
(* and the Modal that composes the two (src/unnamed/part_006).             *)
(*                                                                         *)
(* The host framework is React 18: a commit applies the DOM mutations      *)
(* (refs attached or detached with them), then runs the cleanups of the    *)
(* effects whose dependencies changed, then their setups, children before  *)
(* parents.  The browser is modelled by the document's focus, the          *)
(* sequential (Tab) focus navigation and the keydown dispatch.             *)
(***************************************************************************)
EXTENDS Integers, Sequences, FiniteSets, TLC

(***************************************************************************)
(* Bounds of the model.                                                    *)
(***************************************************************************)
\* the longest list of descendants a container holds
MaxChildren == 3
\* how many times one place in the tree mounts a Portal
MaxMounts == 2
\* how many keydown listeners the document holds at most
MaxListeners == 3
\* how many calls of open, close and toggle one event makes before React
\* renders
MaxBatch == 3
\* the longest list of social icons a Footer is given
MaxIcons == 3
\* the longest container content the selector is applied to in SelectorSpec
MaxQueried == 2
\* the most descendants the container has in MutationSpec
MaxMutated == 3

(***************************************************************************)
(* The document.  An element reference is a record [k, i]; the container   *)
(* the ref points at is Panel and its descendants are Child(1..n) in       *)
(* document order.  Trigger is a button before the container in document   *)
(* order (the button that opens the dialog), After a button after it.      *)
(* Body is what document.activeElement returns when no element is focused, *)
(* Undefined what indexing an empty NodeList returns, Null an unset ref.   *)
(* Stale(i) is a descendant of a container React has removed: such an      *)
(* element never returns to the document.                                  *)
(***************************************************************************)
Body      == [k |-> "body", i |-> 0]
Trigger   == [k |-> "trigger", i |-> 0]
After     == [k |-> "after", i |-> 0]
Panel     == [k |-> "panel", i |-> 0]
Null      == [k |-> "null", i |-> 0]
Undefined == [k |-> "undefined", i |-> 0]
Child(n)  == [k |-> "child", i |-> n]
Stale(n)  == [k |-> "stale", i |-> n]

\* The kinds of descendant: a tag and the value of its tabindex attribute
\* ("none": no such attribute). One kind for each way an element can stand to
\* the selector, to script focus and to the Tab order:
\*   <button>                matches, focusable, a tab stop
\*   <button tabindex="-1">  matches, focusable, no tab stop
\*   <div tabindex="-1">     no match, focusable, no tab stop
\*   <div>                   no match, not focusable
\* Every element is enabled and visible.
Kinds ==
  { [tag |-> "button", tabindex |-> "none"],
    [tag |-> "button", tabindex |-> "-1"],
    [tag |-> "div",    tabindex |-> "-1"],
    [tag |-> "div",    tabindex |-> "none"] }

\* the tags the selector names: button, [href], input, select, textarea
InteractiveTags == {"button", "a-href", "input", "select", "textarea"}

VARIABLES
  children,       \* the container's descendants, in document order
  panelInDom,     \* the container is in the document
  triggerInDom,   \* the Trigger button is in the document
  refCurrent,     \* ref.current: Panel or Null
  activeElement,  \* document.activeElement
  hostMounted,    \* the component calling useFocusTrap is mounted
  isActive,       \* the isActive argument of the last render
  tabListeners,   \* the handleTabKey closures attached to the container
  cleanupFn,      \* the cleanup the last effect run returned
  lastOp,         \* what the last step did
  defaultPrevented, \* the last keydown's default was prevented
  threw,          \* some step raised an exception
  handled,        \* the last keydown ran a listener of the container
  anchorBefore,   \* the element focused just before the last activation
  keysOnly,       \* focus moved only by key presses since the activation
  teardownsRun    \* how many times the last step ran a cleanup of the hook

trapVars == <<children, panelInDom, triggerInDom, refCurrent, activeElement,
              hostMounted, isActive, tabListeners, cleanupFn, lastOp,
              defaultPrevented, threw, handled, anchorBefore, keysOnly,
              teardownsRun>>

VARIABLES
  bodyNodes,      \* the portal containers among document.body's children
  phase,          \* each Portal: "idle", "pending" (effect run, re-render
                  \* with mounted = true pending), "rendered", or "changed"
                  \* (rendered and committed with new props, nothing pending)
  cid,            \* each Portal's containerId
  create,         \* each Portal's createElement
  inc,            \* how many Portal instances a place has mounted so far
  preExisting,    \* the ids of the containers the page's HTML came with
  users,          \* per id, the places whose Portals have used it
  lastRemoval,    \* the container removal of the last step, if any
  lastRender,     \* what the render pass of the last step did, if any
  portalOp        \* what the last Portal step did

portalVars == <<bodyNodes, phase, cid, create, inc, preExisting, users,
                lastRemoval, lastRender, portalOp>>

VARIABLES
  modalOpen       \* the Modal's isOpen

modalVars == <<modalOpen>>

VARIABLES
  modalMounted,   \* the Modal is mounted
  closeOnEsc,     \* the Modal's closeOnEsc
  preventScroll,  \* the Modal's preventScroll
  onCloseProp,    \* the identity of the function passed as onClose
  docListeners,   \* the keydown listeners registered on document
  bodyInline,     \* document.body.style.overflow ("" when not set)
  bodySheet,      \* the overflow the page's style sheets give to body
  escCleanup,     \* the cleanup the Modal's own effect returned last
  onCloseCalls,   \* the onClose functions the last key press invoked
  overflowBefore, \* the computed overflow of body before the scroll lock
  escOp           \* what the last step did to the Modal's own effect

escVars == <<modalMounted, closeOnEsc, preventScroll, onCloseProp,
             docListeners, bodyInline, bodySheet, escCleanup, onCloseCalls,
             overflowBefore, escOp>>

VARIABLES
  hookIsOpen,         \* useModal: the state isOpen as last rendered
  setIsOpenQueue,     \* the updates setIsOpen has queued since then
  defaultOpenOpt,     \* options.defaultOpen: "omitted", "true" or "false"
  hasOnOpenChange,    \* options.onOpenChange is supplied
  strictMode,         \* React runs updater functions twice (StrictMode)
  onOpenChangeCalls,  \* the arguments of the calls of onOpenChange made
                      \* since the last render but one
  isOpenChanges,      \* the values isOpen changed to over the same calls
  expectedOpen,       \* what the calls made so far should leave isOpen at
  lastHookCall        \* the last step of useModal

hookVars == <<hookIsOpen, setIsOpenQueue, defaultOpenOpt, hasOnOpenChange,
              strictMode, onOpenChangeCalls, isOpenChanges, expectedOpen,
              lastHookCall>>

VARIABLES
  showSocialIcons,  \* Footer: the prop showSocialIcons
  socialIcons,      \* the prop socialIcons, each icon with its onClick
  footerButtons,    \* the buttons the Footer has rendered for the icons
  footerClicked,    \* which button the last click was on, 0 before any
  footerCalls       \* the onClick functions that click invoked

footerVars == <<showSocialIcons, socialIcons, footerButtons, footerClicked,
                footerCalls>>

vars == <<trapVars, portalVars, modalVars, escVars, hookVars, footerVars>>

(***************************************************************************)
(* The browser.                                                            *)
(***************************************************************************)
\* an element the browser lets script focus: an interactive control, or any
\* element with a tabindex attribute
Focusable(kind) == kind.tag \in InteractiveTags \/ kind.tabindex # "none"

\* an element sequential focus navigation stops at: a negative tabindex takes
\* an element out of the Tab order
Tabbable(kind) ==
  IF kind.tabindex = "none" THEN kind.tag \in InteractiveTags
  ELSE kind.tabindex = "0"

IsAttached(el, trigIn, panIn) ==
  CASE el.k = "body"    -> TRUE
    [] el.k = "after"   -> TRUE
    [] el.k = "trigger" -> trigIn
    [] el.k = "panel"   -> panIn
    [] el.k = "child"   -> panIn
    [] OTHER            -> FALSE

\* mutant: focus() raises an error on an element that is not in the document
FocusCallThrowsDetached(el, cur, kids, trigIn, panIn) ==
  IF el \in {Undefined, Null} \/ ~IsAttached(el, trigIn, panIn)
  THEN [focus |-> cur, threw |-> TRUE]
  ELSE IF \/ el.k \in {"trigger", "after"}
          \/ el.k = "child" /\ Focusable(kids[el.i])
  THEN [focus |-> el, threw |-> FALSE]
  ELSE [focus |-> cur, threw |-> FALSE]

\* HTMLElement.focus(): [focus, threw], the document focus after el.focus()
\* when it was cur. The call does nothing on an element that is detached or
\* not focusable, and raises a TypeError when el is undefined or null.
FocusCall(el, cur, kids, trigIn, panIn) ==
  IF el \in {Undefined, Null} THEN [focus |-> cur, threw |-> TRUE]
  ELSE IF /\ IsAttached(el, trigIn, panIn)
          /\ \/ el.k \in {"trigger", "after"}
             \/ el.k = "child" /\ Focusable(kids[el.i])
  THEN [focus |-> el, threw |-> FALSE]
  ELSE [focus |-> cur, threw |-> FALSE]

\* mutant: the call without the optional chaining, x.focus()
StrictFocusCall(el, cur, kids, trigIn, panIn) ==
  FocusCall(el, cur, kids, trigIn, panIn)

\* x?.focus(): no call at all on undefined or null
OptionalFocusCall(el, cur, kids, trigIn, panIn) ==
  IF el \in {Undefined, Null} THEN [focus |-> cur, threw |-> FALSE]
  ELSE FocusCall(el, cur, kids, trigIn, panIn)

\* the place of an element in document order; Body stands before the first
\* element going forward and after the last going backward
DocPos(el, kids, shift) ==
  CASE el.k = "trigger" -> 0
    [] el.k = "child"   -> el.i
    [] el.k = "after"   -> Len(kids) + 1
    [] OTHER            -> IF shift THEN Len(kids) + 2 ELSE 0 - 1

TabStops(kids, trigIn, panIn) ==
  (IF trigIn THEN {Trigger} ELSE {})
  \cup (IF panIn THEN {Child(n) : n \in {m \in 1..Len(kids) : Tabbable(kids[m])}}
        ELSE {})
  \cup {After}

\* the browser's default action for Tab (Shift+Tab): the next (previous) tab
\* stop in document order; past the end focus leaves the page (Body)
NativeTab(cur, shift, kids, trigIn, panIn) ==
  LET stops == TabStops(kids, trigIn, panIn)
      here  == DocPos(cur, kids, shift)
      cand  == IF shift
               THEN {e \in stops : DocPos(e, kids, shift) < here}
               ELSE {e \in stops : DocPos(e, kids, shift) > here}
  IN IF cand = {} THEN Body
     ELSE IF shift
     THEN CHOOSE e \in cand :
            \A f \in cand : DocPos(f, kids, shift) <= DocPos(e, kids, shift)
     ELSE CHOOSE e \in cand :
            \A f \in cand : DocPos(f, kids, shift) >= DocPos(e, kids, shift)

(***************************************************************************)
(* useFocusTrap.                                                           *)
(***************************************************************************)
\* the selector of element.querySelectorAll
MatchesSelector(kind) ==
  \/ kind.tag \in InteractiveTags
  \/ kind.tabindex # "none" /\ kind.tabindex # "-1"

\* focusableElements: the matching descendants, in document order
FocusableElements(kids) ==
  LET Matches(n) == MatchesSelector(kids[n])
      idx == SelectSeq([n \in 1..Len(kids) |-> n], Matches)
  IN [j \in 1..Len(idx) |-> Child(idx[j])]

\* mutant: the last element taken for the first
FirstFocusableIsLast(q) == IF Len(q) = 0 THEN Undefined ELSE q[Len(q)]

\* focusableElements[0]
FirstFocusable(q) == IF Len(q) = 0 THEN Undefined ELSE q[1]

\* focusableElements[focusableElements.length - 1]
LastFocusable(q) == IF Len(q) = 0 THEN Undefined ELSE q[Len(q)]

NoCleanup ==
  [registered |-> FALSE, element |-> Null, first |-> Undefined,
   last |-> Undefined, anchor |-> Undefined]

\* mutant: every Tab has its default action prevented
HandleTabKeyAlwaysPrevents(h, key, shift, ev, kids, trigIn, panIn) ==
  IF key # "Tab" THEN ev
  ELSE IF ev.focus = (IF shift THEN h.first ELSE h.last)
  THEN LET f == FocusCall(IF shift THEN h.last ELSE h.first, ev.focus, kids,
                          trigIn, panIn)
       IN [focus |-> f.focus, prevented |-> TRUE, threw |-> ev.threw \/ f.threw]
  ELSE [ev EXCEPT !.prevented = TRUE]

\* mutant: e.shiftKey is not looked at, every Tab is handled as a forward Tab
HandleTabKeyIgnoresShift(h, key, shift, ev, kids, trigIn, panIn) ==
  IF key # "Tab" THEN ev
  ELSE IF ev.focus = h.last
       THEN LET f == FocusCall(h.first, ev.focus, kids, trigIn, panIn)
            IN [focus |-> f.focus, prevented |-> TRUE,
                threw |-> ev.threw \/ f.threw]
       ELSE ev

\* mutant: handleTabKey queries the container again at every key press
HandleTabKeyQueriesAgain(h, key, shift, ev, kids, trigIn, panIn) ==
  LET q     == FocusableElements(kids)
      first == FirstFocusable(q)
      last  == LastFocusable(q)
  IN IF key # "Tab" THEN ev
     ELSE IF ev.focus = (IF shift THEN first ELSE last)
     THEN LET f == FocusCall(IF shift THEN last ELSE first, ev.focus, kids,
                             trigIn, panIn)
          IN [focus |-> f.focus, prevented |-> TRUE, threw |-> ev.threw \/ f.threw]
     ELSE ev

\* handleTabKey, a closure over first and last: ev is the event so far,
\* [focus, prevented, threw]
HandleTabKey(h, key, shift, ev, kids, trigIn, panIn) ==
  IF key # "Tab" THEN ev
  ELSE IF shift
  THEN IF ev.focus = h.first
       THEN LET f == FocusCall(h.last, ev.focus, kids, trigIn, panIn)
            IN [focus |-> f.focus, prevented |-> TRUE,
                threw |-> ev.threw \/ f.threw]
       ELSE ev
  ELSE IF ev.focus = h.last
       THEN LET f == FocusCall(h.first, ev.focus, kids, trigIn, panIn)
            IN [focus |-> f.focus, prevented |-> TRUE,
                threw |-> ev.threw \/ f.threw]
       ELSE ev

\* the listeners of the container run in the order they were added
RECURSIVE RunListeners(_, _, _, _, _, _, _)
RunListeners(ls, key, shift, ev, kids, trigIn, panIn) ==
  IF ls = <<>> THEN ev
  ELSE RunListeners(Tail(ls), key, shift,
                    HandleTabKey(Head(ls), key, shift, ev, kids, trigIn, panIn),
                    kids, trigIn, panIn)

\* element.removeEventListener("keydown", h): the first listener equal to h
RECURSIVE RemoveListener(_, _)
RemoveListener(ls, h) ==
  IF ls = <<>> THEN <<>>
  ELSE IF Head(ls) = h THEN Tail(ls)
  ELSE <<Head(ls)>> \o RemoveListener(Tail(ls), h)

\* mutant: the setup goes on when ref.current is null
TrapSetupIgnoresRef(ts, active, refCur, kids, trigIn, panIn) ==
  IF ~active
  THEN [ts EXCEPT !.cleanup = NoCleanup]
  ELSE LET q     == FocusableElements(kids)
           first == FirstFocusable(q)
           last  == LastFocusable(q)
           f     == OptionalFocusCall(first, ts.focus, kids, trigIn, panIn)
       IN [focus     |-> f.focus,
           listeners |-> Append(ts.listeners, [first |-> first, last |-> last]),
           cleanup   |-> [registered |-> TRUE, element |-> refCur,
                          first |-> first, last |-> last, anchor |-> ts.focus],
           threw     |-> ts.threw,
           teardowns |-> ts.teardowns]

\* The effect's setup on the trap state ts = [focus, listeners, cleanup,
\* threw]. A setup that throws adds no listener and returns no cleanup.
TrapSetup(ts, active, refCur, kids, trigIn, panIn) ==
  IF ~active \/ refCur = Null
  THEN [ts EXCEPT !.cleanup = NoCleanup]
  ELSE LET q      == FocusableElements(kids)
           first  == FirstFocusable(q)
           last   == LastFocusable(q)
           anchor == ts.focus
           f      == OptionalFocusCall(first, ts.focus, kids, trigIn, panIn)
       IN IF f.threw
          THEN [ts EXCEPT !.cleanup = NoCleanup, !.threw = TRUE]
          ELSE [focus     |-> f.focus,
                listeners |-> Append(ts.listeners,
                                     [first |-> first, last |-> last]),
                cleanup   |-> [registered |-> TRUE, element |-> refCur,
                               first |-> first, last |-> last,
                               anchor |-> anchor],
                threw     |-> ts.threw,
                teardowns |-> ts.teardowns]

\* mutant: the cleanup restores focus and leaves the listener on the element
TrapCleanupKeepsListener(ts, kids, trigIn, panIn) ==
  LET c == ts.cleanup
      f == OptionalFocusCall(c.anchor, ts.focus, kids, trigIn, panIn)
  IN [focus     |-> f.focus,
      listeners |-> ts.listeners,
      cleanup   |-> NoCleanup,
      threw     |-> ts.threw \/ f.threw,
      teardowns |-> ts.teardowns + 1]

\* mutant: the cleanup removes the listener and leaves focus where it is
TrapCleanupNoRestore(ts, kids, trigIn, panIn) ==
  LET c == ts.cleanup
  IN [focus     |-> ts.focus,
      listeners |-> IF c.element = Panel
                    THEN RemoveListener(ts.listeners,
                                        [first |-> c.first, last |-> c.last])
                    ELSE ts.listeners,
      cleanup   |-> NoCleanup,
      threw     |-> ts.threw,
      teardowns |-> ts.teardowns + 1]

\* The cleanup the setup returned.
TrapCleanup(ts, kids, trigIn, panIn) ==
  LET c == ts.cleanup
      f == OptionalFocusCall(c.anchor, ts.focus, kids, trigIn, panIn)
  IN [focus     |-> f.focus,
      listeners |-> IF c.element = Panel
                    THEN RemoveListener(ts.listeners,
                                        [first |-> c.first, last |-> c.last])
                    ELSE ts.listeners,
      cleanup   |-> NoCleanup,
      threw     |-> ts.threw \/ f.threw,
      teardowns |-> ts.teardowns + 1]

\* mutant: the effect runs a cleanup at every re-run, returned or not
TrapEffectAlwaysCleans(ts, depsChanged, active, refCur, kids, trigIn, panIn) ==
  IF ~depsChanged THEN ts
  ELSE TrapSetup(TrapCleanup(ts, kids, trigIn, panIn), active, refCur, kids,
                 trigIn, panIn)

\* useEffect(..., [isActive, ref]) at a commit: when a dependency changed,
\* the previous cleanup (if one was returned), then the setup
TrapEffect(ts, depsChanged, active, refCur, kids, trigIn, panIn) ==
  IF ~depsChanged THEN ts
  ELSE LET cleaned == IF ts.cleanup.registered
                      THEN TrapCleanup(ts, kids, trigIn, panIn)
                      ELSE ts
       IN TrapSetup(cleaned, active, refCur, kids, trigIn, panIn)

\* React removes the container from the document: its elements are gone for
\* good, focus inside it falls back to the body, and the references the
\* closures hold point at detached elements
StaleRef(el) ==
  CASE el.k = "child" -> Stale(el.i)
    [] el.k = "panel" -> Stale(0)
    [] OTHER          -> el

DetachPanel(ts) ==
  [focus     |-> IF ts.focus.k = "child" THEN Body ELSE ts.focus,
   listeners |-> <<>>,
   cleanup   |-> [registered |-> ts.cleanup.registered,
                  element |-> StaleRef(ts.cleanup.element),
                  first   |-> StaleRef(ts.cleanup.first),
                  last    |-> StaleRef(ts.cleanup.last),
                  anchor  |-> StaleRef(ts.cleanup.anchor)],
   threw     |-> ts.threw,
   teardowns |-> ts.teardowns]

TrapState ==
  [focus |-> activeElement, listeners |-> tabListeners, cleanup |-> cleanupFn,
   threw |-> threw, teardowns |-> 0]

(***************************************************************************)
(* A component that calls useFocusTrap(ref, isActive) with a ref of its    *)
(* own and renders the container or not (ModalExample renders it when      *)
(* isModalOpen is set).                                                    *)
(***************************************************************************)
ContainerContents ==
  UNION {[1..n -> Kinds] : n \in 0..MaxChildren}

TrapRest ==
  /\ panelInDom = FALSE
  /\ triggerInDom = TRUE
  /\ refCurrent = Null
  /\ activeElement = Body
  /\ hostMounted = FALSE
  /\ isActive = FALSE
  /\ tabListeners = <<>>
  /\ cleanupFn = NoCleanup
  /\ lastOp = "init"
  /\ defaultPrevented = FALSE
  /\ threw = FALSE
  /\ handled = FALSE
  /\ anchorBefore = Undefined
  /\ keysOnly = FALSE
  /\ teardownsRun = 0

TrapInit ==
  /\ children \in ContainerContents
  /\ TrapRest

\* the trap state after a step, and what the step is recorded as
SetTrap(ts, op, before, panelStays) ==
  /\ activeElement' = ts.focus
  /\ tabListeners' = ts.listeners
  /\ cleanupFn' = ts.cleanup
  /\ threw' = ts.threw
  /\ lastOp' = op
  /\ teardownsRun' = ts.teardowns
  /\ anchorBefore' = IF op = "activate" THEN before
                     ELSE IF op # "teardown" /\ ~ts.cleanup.registered
                     THEN Undefined
                     ELSE IF panelInDom /\ ~panelStays THEN StaleRef(anchorBefore)
                     ELSE anchorBefore
  /\ keysOnly' = IF op = "activate" THEN TRUE
                 ELSE /\ keysOnly
                      /\ ts.focus = activeElement
                      /\ ts.cleanup.registered

\* A render of the host with isActive = active, the container rendered or
\* not, and its commit: the DOM mutation with the ref, then the effect.
HostCommit(active, renderPanel) ==
  LET mutated == IF panelInDom /\ ~renderPanel THEN DetachPanel(TrapState)
                 ELSE TrapState
      refCur  == IF renderPanel THEN Panel ELSE Null
      deps    == ~hostMounted \/ active # isActive
      after   == TrapEffect(mutated, deps, active, refCur, children,
                            triggerInDom, renderPanel)
      op      == IF deps /\ after.cleanup.registered THEN "activate"
                 ELSE IF deps /\ mutated.cleanup.registered THEN "teardown"
                 ELSE IF deps THEN "skip"
                 ELSE "other"
  IN /\ hostMounted' = TRUE
     /\ isActive' = active
     /\ panelInDom' = renderPanel
     /\ refCurrent' = refCur
     /\ SetTrap(after, op, mutated.focus, renderPanel)
     /\ defaultPrevented' = FALSE
     /\ handled' = FALSE
     /\ UNCHANGED <<children, triggerInDom>>

\* A render of the host that leaves isActive as it is and renders the
\* container as another element (under a new key, say), and its commit: React
\* removes the old element, inserts the new one and sets ref.current to it;
\* the dependencies [isActive, ref] have not changed.
HostReplacePanel ==
  /\ hostMounted /\ panelInDom
  /\ LET mutated == DetachPanel(TrapState)
         after   == TrapEffect(mutated, FALSE, isActive, Panel, children,
                               triggerInDom, TRUE)
     IN SetTrap(after, "replace", mutated.focus, FALSE)
  /\ refCurrent' = Panel
  /\ defaultPrevented' = FALSE
  /\ handled' = FALSE
  /\ UNCHANGED <<children, panelInDom, triggerInDom, hostMounted, isActive>>

\* The host unmounts: the container leaves the document, then the cleanup.
HostUnmount ==
  /\ hostMounted
  /\ LET mutated == IF panelInDom THEN DetachPanel(TrapState) ELSE TrapState
         after   == IF mutated.cleanup.registered
                    THEN TrapCleanup(mutated, children, triggerInDom, FALSE)
                    ELSE mutated
     IN SetTrap(after,
                IF mutated.cleanup.registered THEN "teardown" ELSE "other",
                mutated.focus, FALSE)
  /\ hostMounted' = FALSE
  /\ panelInDom' = FALSE
  /\ refCurrent' = Null
  /\ defaultPrevented' = FALSE
  /\ handled' = FALSE
  /\ isActive' = FALSE
  /\ UNCHANGED <<children, triggerInDom>>

\* A keydown at the focused element: it bubbles to the container's listeners
\* when the element is inside the container; an unprevented Tab then moves
\* focus natively.
KeyDown(key, shift) ==
  LET ev0 == [focus |-> activeElement, prevented |-> FALSE, threw |-> FALSE]
      inside == activeElement.k = "child" /\ panelInDom
      ev1 == IF inside
             THEN RunListeners(tabListeners, key, shift, ev0, children,
                               triggerInDom, panelInDom)
             ELSE ev0
      focus == IF key = "Tab" /\ ~ev1.prevented
               THEN NativeTab(ev1.focus, shift, children, triggerInDom, panelInDom)
               ELSE ev1.focus
  IN /\ activeElement' = focus
     /\ defaultPrevented' = ev1.prevented
     /\ threw' = (threw \/ ev1.threw)
     /\ handled' = (inside /\ tabListeners # <<>>)
     /\ lastOp' = IF key = "Tab" THEN (IF shift THEN "ShiftTab" ELSE "Tab")
                  ELSE key
     /\ anchorBefore' = IF cleanupFn.registered THEN anchorBefore ELSE Undefined
     /\ teardownsRun' = 0
     /\ UNCHANGED <<children, panelInDom, triggerInDom, refCurrent, hostMounted,
                    isActive, tabListeners, cleanupFn, keysOnly>>

\* The user focuses an element with the pointer, or Body by clicking where
\* nothing is focusable.
UserFocus(el) ==
  /\ el # activeElement
  /\ \/ el = Body
     \/ FocusCall(el, activeElement, children, triggerInDom, panelInDom).focus = el
  /\ activeElement' = el
  /\ lastOp' = "other"
  /\ keysOnly' = FALSE
  /\ defaultPrevented' = FALSE
  /\ handled' = FALSE
  /\ anchorBefore' = IF cleanupFn.registered THEN anchorBefore ELSE Undefined
  /\ teardownsRun' = 0
  /\ UNCHANGED <<children, panelInDom, triggerInDom, refCurrent, hostMounted,
                 isActive, tabListeners, cleanupFn, threw>>

\* The page removes the Trigger button from the document.
RemoveTrigger ==
  /\ triggerInDom
  /\ triggerInDom' = FALSE
  /\ activeElement' = IF activeElement = Trigger THEN Body ELSE activeElement
  /\ keysOnly' = (keysOnly /\ activeElement # Trigger)
  /\ lastOp' = "other"
  /\ defaultPrevented' = FALSE
  /\ handled' = FALSE
  /\ anchorBefore' = IF cleanupFn.registered THEN anchorBefore ELSE Undefined
  /\ teardownsRun' = 0
  /\ UNCHANGED <<children, panelInDom, refCurrent, hostMounted, isActive,
                 tabListeners, cleanupFn, threw>>

Elements == {Body, Trigger, After} \cup {Child(n) : n \in 1..Len(children)}

TrapNext ==
  \/ \E active \in BOOLEAN, renderPanel \in BOOLEAN : HostCommit(active, renderPanel)
  \/ HostUnmount
  \/ HostReplacePanel
  \/ \E shift \in BOOLEAN : KeyDown("Tab", shift)
  \/ KeyDown("Escape", FALSE)
  \/ \E el \in Elements : UserFocus(el)
  \/ RemoveTrigger

(***************************************************************************)
(* The selector on a wider choice of descendants: every tag the selector    *)
(* names, and the tabindex values 0, -1 and -2 on a button and on a div.    *)
(***************************************************************************)
SelectorKinds ==
  {[tag |-> t, tabindex |-> "none"] : t \in InteractiveTags \cup {"div"}}
    \cup {[tag |-> t, tabindex |-> x] : t \in {"button", "div"},
                                        x \in {"0", "-1", "-2"}}

QueriedContents ==
  UNION {[1..n -> SelectorKinds] : n \in 0..MaxQueried}

SelectorInit ==
  /\ children \in QueriedContents
  /\ TrapRest

\* the host renders the container with isActive set or not, unmounts, and the
\* user presses Tab
SelectorNext ==
  \/ \E active \in BOOLEAN : HostCommit(active, TRUE)
  \/ HostUnmount
  \/ \E shift \in BOOLEAN : KeyDown("Tab", shift)

(***************************************************************************)
(* The container's content changing while the host is mounted (the content  *)
(* is the children prop of the Modal, rendered by its owner).  A descendant *)
(* is its place in children: one that is removed leaves the kind Gone at    *)
(* its place, which nothing matches, and a new one is put after the others. *)
(***************************************************************************)
Gone == [tag |-> "gone", tabindex |-> "none"]

MutationKinds ==
  {[tag |-> "button", tabindex |-> "none"], [tag |-> "div", tabindex |-> "none"]}

MutatedContents ==
  UNION {[1..n -> MutationKinds] : n \in 0..MaxMutated}

MutationInit ==
  /\ children \in MutatedContents
  /\ TrapRest

\* what a change of the content leaves alone: the hook does not run
MutationFrame(kids) ==
  /\ children' = kids
  /\ lastOp' = "mutate"
  /\ defaultPrevented' = FALSE
  /\ handled' = FALSE
  /\ teardownsRun' = 0
  /\ anchorBefore' = IF cleanupFn.registered THEN anchorBefore ELSE Undefined
  /\ UNCHANGED <<panelInDom, triggerInDom, refCurrent, hostMounted, isActive,
                 tabListeners, cleanupFn, threw>>

\* descendant n is removed (kind = Gone), or becomes a button or a div: the
\* element that has focus loses it when it stops being focusable
MutateChild(n, kind) ==
  /\ hostMounted /\ panelInDom
  /\ children[n] # Gone
  /\ children[n] # kind
  /\ MutationFrame([children EXCEPT ![n] = kind])
  /\ activeElement' = IF activeElement = Child(n) /\ ~Focusable(kind)
                      THEN Body ELSE activeElement
  /\ keysOnly' = (keysOnly /\ ~(activeElement = Child(n) /\ ~Focusable(kind)))

\* a new descendant after the others
AppendChild(kind) ==
  /\ hostMounted /\ panelInDom
  /\ Len(children) < MaxMutated
  /\ MutationFrame(Append(children, kind))
  /\ UNCHANGED <<activeElement, keysOnly>>

MutationNext ==
  \/ \E active \in BOOLEAN : HostCommit(active, TRUE)
  \/ HostUnmount
  \/ \E shift \in BOOLEAN : KeyDown("Tab", shift)
  \/ \E n \in 1..Len(children), kind \in MutationKinds \cup {Gone} :
        MutateChild(n, kind)
  \/ \E kind \in MutationKinds : AppendChild(kind)

(***************************************************************************)
(* Portal.  Its consumers are Portals at two places of the tree (or of two *)
(* trees); a place mounts one Portal instance at a time.  A container is a *)
(* record [id, by, kids]: by is the Portal instance that created it (Html  *)
(* for a node of the page itself), kids the places whose content React has *)
(* put into it.                                                            *)
(***************************************************************************)
Slots == {1, 2}

ContainerIds == {"portal-root", "shared-root"}

Html == [slot |-> 0, inc |-> 0]

Instance(c) == [slot |-> c, inc |-> inc[c]]

\* document.getElementById(id): the place in bodyNodes of the first node with
\* the id, 0 for null
GetElementById(nodes, id) ==
  LET found == {i \in 1..Len(nodes) : nodes[i].id = id}
  IN IF found = {} THEN 0
     ELSE CHOOSE i \in found : \A j \in found : i <= j

RemoveAt(nodes, i) ==
  [j \in 1..(Len(nodes) - 1) |-> IF j < i THEN nodes[j] ELSE nodes[j + 1]]

\* the effect's setup after setMounted(true): create the container if it is
\* missing and createElement is set
PortalCreate(nodes, id, createEl, inst) ==
  IF createEl /\ GetElementById(nodes, id) = 0
  THEN Append(nodes, [id |-> id, by |-> inst, kids |-> {}])
  ELSE nodes

\* React takes the content of the Portal at place c out of the document
RemoveContent(nodes, c) ==
  [i \in 1..Len(nodes) |-> [nodes[i] EXCEPT !.kids = @ \ {c}]]

\* createPortal(children, container) throws when container is not a DOM
\* element
CreatePortal(nodes, c, root) ==
  IF root = 0
  THEN [nodes |-> nodes, threw |-> TRUE]
  ELSE [nodes |-> [nodes EXCEPT ![root].kids = @ \cup {c}], threw |-> FALSE]

\* mutant: the render looks the container up before it tests mounted
PortalRenderLooksUpFirst(nodes, c, mountedState, id) ==
  LET cleared == RemoveContent(nodes, c)
      root    == GetElementById(cleared, id)
      made    == CreatePortal(cleared, c, root)
  IN IF ~mountedState \/ root = 0
     THEN [nodes |-> cleared, lookups |-> 1, output |-> "null", threw |-> FALSE]
     ELSE [nodes |-> made.nodes, lookups |-> 1, output |-> "portal",
           threw |-> made.threw]

\* mutant: the render hands whatever the lookup gave to createPortal
PortalRenderNoRootCheck(nodes, c, mountedState, id) ==
  LET cleared == RemoveContent(nodes, c)
      root    == GetElementById(cleared, id)
      made    == CreatePortal(cleared, c, root)
  IN IF ~mountedState
     THEN [nodes |-> cleared, lookups |-> 0, output |-> "null", threw |-> FALSE]
     ELSE [nodes |-> made.nodes, lookups |-> 1,
           output |-> IF made.threw THEN "none" ELSE "portal",
           threw |-> made.threw]

\* One render pass of the Portal at place c and its commit: null while
\* mounted is false, null when the container is missing, else
\* createPortal(children, portalRoot). lookups counts the calls of
\* document.getElementById the render made.
PortalRenderPass(nodes, c, mountedState, id) ==
  LET cleared == RemoveContent(nodes, c)
      root    == GetElementById(cleared, id)
      made    == CreatePortal(cleared, c, root)
  IN IF ~mountedState
     THEN [nodes |-> cleared, lookups |-> 0, output |-> "null", threw |-> FALSE]
     ELSE IF root = 0
     THEN [nodes |-> cleared, lookups |-> 1, output |-> "null", threw |-> FALSE]
     ELSE [nodes |-> made.nodes, lookups |-> 1, output |-> "portal",
           threw |-> made.threw]

\* the document after the render pass
PortalRenderInto(nodes, c, mountedState, id) ==
  PortalRenderPass(nodes, c, mountedState, id).nodes

NoRender == [happened |-> FALSE, mounted |-> FALSE, lookups |-> 0,
             output |-> "none", threw |-> FALSE]

\* what a render pass with mounted = mountedState was seen to do; without a
\* document (hasDocument false) a lookup is a ReferenceError
RenderSeen(pass, mountedState, hasDocument) ==
  [happened |-> TRUE, mounted |-> mountedState, lookups |-> pass.lookups,
   output |-> pass.output,
   threw |-> pass.threw \/ (~hasDocument /\ pass.lookups > 0)]

\* mutant: the cleanup does not look at the container's child nodes
PortalCleanupIgnoresChildren(nodes, id, createEl) ==
  IF createEl
  THEN LET existing == GetElementById(nodes, id)
       IN IF existing # 0 THEN RemoveAt(nodes, existing) ELSE nodes
  ELSE nodes

\* mutant: the cleanup leaves the container in the document
PortalCleanupKeepsNode(nodes, id, createEl) == nodes

\* the effect's cleanup
PortalCleanup(nodes, id, createEl) ==
  IF createEl
  THEN LET existing == GetElementById(nodes, id)
       IN IF existing # 0 /\ nodes[existing].kids = {}
          THEN RemoveAt(nodes, existing)
          ELSE nodes
  ELSE nodes

NoRemoval == [happened |-> FALSE, by |-> Html, creator |-> Html, kids |-> 0]

\* what a cleanup by instance inst removed, taking before to after
RemovalBy(inst, before, after, id, createEl) ==
  IF Len(after) < Len(before)
  THEN LET existing == GetElementById(before, id)
       IN [happened |-> TRUE, by |-> inst, creator |-> before[existing].by,
           kids |-> Cardinality(before[existing].kids)]
  ELSE NoRemoval

HasContent(nodes, c, id) ==
  \E i \in 1..Len(nodes) : nodes[i].id = id /\ c \in nodes[i].kids

\* the defaults of the props: containerId = "portal-root", createElement = true
PortalRest ==
  /\ phase = [c \in Slots |-> "idle"]
  /\ cid = [c \in Slots |-> "portal-root"]
  /\ create = [c \in Slots |-> TRUE]
  /\ inc = [c \in Slots |-> 0]
  /\ users = [id \in ContainerIds |-> {}]
  /\ lastRemoval = NoRemoval
  /\ lastRender = NoRender
  /\ portalOp = [op |-> "none", slot |-> 0, hadContent |-> FALSE]

PortalInit ==
  /\ preExisting \in {{}} \cup {{id} : id \in ContainerIds}
  /\ bodyNodes \in {<<>>} \cup
       {<<[id |-> id, by |-> Html, kids |-> {}]>> : id \in preExisting}
  /\ bodyNodes = <<>> <=> preExisting = {}
  /\ PortalRest

PortalQuiet ==
  /\ preExisting = {}
  /\ bodyNodes = <<>>
  /\ PortalRest

\* A Portal mounts at place c: the first render returns null (mounted is
\* false), then the effect runs: setMounted(true) and the container.
PortalMount(c, id, createEl) ==
  /\ phase[c] = "idle"
  /\ inc[c] < MaxMounts
  /\ inc' = [inc EXCEPT ![c] = @ + 1]
  /\ cid' = [cid EXCEPT ![c] = id]
  /\ create' = [create EXCEPT ![c] = createEl]
  /\ users' = [users EXCEPT ![id] = @ \cup {c}]
  /\ bodyNodes' = PortalCreate(PortalRenderInto(bodyNodes, c, FALSE, id),
                               id, createEl, [slot |-> c, inc |-> inc[c] + 1])
  /\ phase' = [phase EXCEPT ![c] = "pending"]
  /\ lastRemoval' = NoRemoval
  /\ lastRender' = RenderSeen(PortalRenderPass(bodyNodes, c, FALSE, id), FALSE, TRUE)
  /\ portalOp' = [op |-> "mount", slot |-> c, hadContent |-> FALSE]
  /\ UNCHANGED preExisting

\* The Portal at place c renders with mounted = true (the re-render its own
\* setMounted asked for, or a later one of its parent).
PortalRender(c) ==
  /\ phase[c] # "idle"
  /\ bodyNodes' = PortalRenderInto(bodyNodes, c, TRUE, cid[c])
  /\ phase' = [phase EXCEPT ![c] = "rendered"]
  /\ lastRemoval' = NoRemoval
  /\ lastRender' = RenderSeen(PortalRenderPass(bodyNodes, c, TRUE, cid[c]), TRUE, TRUE)
  /\ portalOp' = [op |-> "render", slot |-> c,
                  hadContent |-> HasContent(bodyNodes, c, cid[c])]
  /\ UNCHANGED <<cid, create, inc, preExisting, users>>

\* The Portal at place c unmounts: React removes its content, then the
\* effect's cleanup runs.
PortalUnmount(c) ==
  /\ phase[c] # "idle"
  /\ LET removed == RemoveContent(bodyNodes, c)
         after   == PortalCleanup(removed, cid[c], create[c])
     IN /\ bodyNodes' = after
        /\ lastRemoval' = RemovalBy(Instance(c), removed, after, cid[c], create[c])
  /\ phase' = [phase EXCEPT ![c] = "idle"]
  /\ lastRender' = NoRender
  /\ portalOp' = [op |-> "unmount", slot |-> c,
                  hadContent |-> HasContent(bodyNodes, c, cid[c])]
  /\ UNCHANGED <<cid, create, inc, preExisting, users>>

\* The parent renders the mounted Portal at place c with another containerId
\* or createElement.  The render pass has mounted = true (the update of the
\* first effect is applied in it) and looks the new id up; at the commit React
\* moves the content; then the effect's cleanup runs with the old props and
\* its setup with the new ones.  setMounted(true) leaves the state as it is,
\* so React schedules no render after the setup.
PortalPropsChange(c, id, createEl) ==
  /\ phase[c] # "idle"
  /\ <<id, createEl>> # <<cid[c], create[c]>>
  /\ LET pass    == PortalRenderPass(bodyNodes, c, TRUE, id)
         cleaned == PortalCleanup(pass.nodes, cid[c], create[c])
     IN /\ bodyNodes' = PortalCreate(cleaned, id, createEl, Instance(c))
        /\ lastRender' = RenderSeen(pass, TRUE, TRUE)
        /\ lastRemoval' = RemovalBy(Instance(c), pass.nodes, cleaned,
                                    cid[c], create[c])
  /\ cid' = [cid EXCEPT ![c] = id]
  /\ create' = [create EXCEPT ![c] = createEl]
  /\ users' = [users EXCEPT ![id] = @ \cup {c}]
  /\ phase' = [phase EXCEPT ![c] = "changed"]
  /\ portalOp' = [op |-> "props", slot |-> c,
                  hadContent |-> HasContent(bodyNodes, c, cid[c])]
  /\ UNCHANGED <<inc, preExisting>>

\* The Portal at place c is rendered where there is no document (on the
\* server): one render pass with mounted = false, no commit, no effect.
PortalServerRender(c, id, createEl) ==
  /\ phase[c] = "idle"
  /\ lastRender' = RenderSeen(PortalRenderPass(<<>>, c, FALSE, id), FALSE, FALSE)
  /\ lastRemoval' = NoRemoval
  /\ portalOp' = [op |-> "server", slot |-> c, hadContent |-> FALSE]
  /\ UNCHANGED <<bodyNodes, phase, cid, create, inc, preExisting, users>>

PortalNext ==
  \/ \E c \in Slots, id \in ContainerIds, createEl \in BOOLEAN :
       PortalMount(c, id, createEl)
  \/ \E c \in Slots, id \in ContainerIds, createEl \in BOOLEAN :
       PortalServerRender(c, id, createEl)
  \/ \E c \in Slots : PortalRender(c)
  \/ \E c \in Slots : PortalUnmount(c)

\* a Portal whose props change while it is mounted, next to one whose props
\* stay as they are
ChangingPortal == 1

PortalPropsNext ==
  \/ \E c \in Slots, id \in ContainerIds, createEl \in BOOLEAN :
       PortalMount(c, id, createEl)
  \/ \E c \in Slots : PortalRender(c)
  \/ \E id \in ContainerIds, createEl \in BOOLEAN :
       PortalPropsChange(ChangingPortal, id, createEl)
  \/ \E c \in Slots : PortalUnmount(c)

(***************************************************************************)
(* Modal: useFocusTrap(modalRef, isOpen) and, while isOpen, a Portal (the  *)
(* one at place 1, with the default props) around the panel that carries   *)
(* modalRef.  The Modal stays mounted; its parent sets isOpen.             *)
(***************************************************************************)
ModalPortal == 1

\* the panel is in the document exactly when the Portal's content is
PanelPlaced(nodes) == HasContent(nodes, ModalPortal, cid[ModalPortal])

\* isOpen goes from false to true. The Modal renders the Portal, whose first
\* render returns null, so modalRef.current stays null; at the commit the
\* Portal's effect runs, then the Modal's effect of useFocusTrap.
ModalOpen ==
  /\ ~modalOpen
  /\ modalOpen' = TRUE
  /\ bodyNodes' = PortalCreate(
                    PortalRenderInto(bodyNodes, ModalPortal, FALSE, cid[ModalPortal]),
                    cid[ModalPortal], create[ModalPortal], Instance(ModalPortal))
  /\ phase' = [phase EXCEPT ![ModalPortal] = "pending"]
  /\ LET after == TrapEffect(TrapState, isActive # TRUE, TRUE, Null, children,
                             triggerInDom, FALSE)
     IN SetTrap(after, IF after.cleanup.registered THEN "activate" ELSE "skip",
                activeElement, TRUE)
  /\ isActive' = TRUE
  /\ refCurrent' = Null
  /\ defaultPrevented' = FALSE
  /\ handled' = FALSE
  /\ lastRemoval' = NoRemoval
  /\ lastRender' = RenderSeen(PortalRenderPass(bodyNodes, ModalPortal, FALSE,
                                               cid[ModalPortal]), FALSE, TRUE)
  /\ portalOp' = [op |-> "mount", slot |-> ModalPortal, hadContent |-> FALSE]
  /\ UNCHANGED <<children, panelInDom, triggerInDom, hostMounted, cid, create,
                 inc, preExisting, users>>

\* A render pass while the Modal is open: the Portal's own re-render after
\* setMounted(true) (withModal false), or a re-render of the Modal by its
\* parent with isOpen unchanged, the Portal with it (withModal true). The
\* panel is placed in the container and modalRef.current set; the
\* dependencies [isActive, ref] of the effect have not changed.
ModalRender(withModal) ==
  /\ modalOpen
  /\ withModal \/ phase[ModalPortal] = "pending"
  /\ bodyNodes' = PortalRenderInto(bodyNodes, ModalPortal, TRUE, cid[ModalPortal])
  /\ phase' = [phase EXCEPT ![ModalPortal] = "rendered"]
  /\ panelInDom' = PanelPlaced(bodyNodes')
  /\ refCurrent' = IF panelInDom' THEN Panel ELSE Null
  /\ LET after == IF withModal
                  THEN TrapEffect(TrapState, isActive # TRUE, TRUE, refCurrent',
                                  children, triggerInDom, panelInDom')
                  ELSE TrapState
     IN SetTrap(after,
                IF after.cleanup.registered /\ ~cleanupFn.registered
                THEN "activate"
                ELSE IF withModal THEN "rerender" ELSE "placed",
                activeElement, TRUE)
  /\ defaultPrevented' = FALSE
  /\ handled' = FALSE
  /\ lastRemoval' = NoRemoval
  /\ lastRender' = RenderSeen(PortalRenderPass(bodyNodes, ModalPortal, TRUE,
                                               cid[ModalPortal]), TRUE, TRUE)
  /\ portalOp' = [op |-> "render", slot |-> ModalPortal,
                  hadContent |-> panelInDom]
  /\ UNCHANGED <<children, triggerInDom, hostMounted, isActive, modalOpen, cid,
                 create, inc, preExisting, users>>

\* isOpen goes from true to false: the Modal returns null, React removes the
\* Portal with the panel, then the cleanups run and the effect of
\* useFocusTrap runs again with isActive false.
ModalClose ==
  /\ modalOpen
  /\ modalOpen' = FALSE
  /\ LET removed == RemoveContent(bodyNodes, ModalPortal)
         after   == PortalCleanup(removed, cid[ModalPortal], create[ModalPortal])
     IN /\ bodyNodes' = after
        /\ lastRemoval' = RemovalBy(Instance(ModalPortal), removed, after,
                                    cid[ModalPortal], create[ModalPortal])
  /\ phase' = [phase EXCEPT ![ModalPortal] = "idle"]
  /\ LET mutated == IF panelInDom THEN DetachPanel(TrapState) ELSE TrapState
         after   == TrapEffect(mutated, isActive # FALSE, FALSE, Null, children,
                               triggerInDom, FALSE)
     IN SetTrap(after,
                IF mutated.cleanup.registered THEN "teardown" ELSE "skip",
                mutated.focus, FALSE)
  /\ isActive' = FALSE
  /\ panelInDom' = FALSE
  /\ refCurrent' = Null
  /\ defaultPrevented' = FALSE
  /\ handled' = FALSE
  /\ lastRender' = NoRender
  /\ portalOp' = [op |-> "unmount", slot |-> ModalPortal,
                  hadContent |-> panelInDom]
  /\ UNCHANGED <<children, triggerInDom, hostMounted, cid, create, inc,
                 preExisting, users>>

(***************************************************************************)
(* The Modal's own effect: the Escape key and the scroll lock.  A listener *)
(* handleEscape is a closure made by one run of the effect: it is known by *)
(* the onClose it calls and by gen, which tells the closures apart.        *)
(***************************************************************************)
OnCloseIds == {1, 2}

InlineOverflows == {"", "auto", "hidden"}

SheetOverflows == {"visible", "auto"}

\* window.getComputedStyle(document.body).overflow
ComputedOverflow(inline, sheet) == IF inline = "" THEN sheet ELSE inline

NoHandler == [onClose |-> 0, gen |-> 0]

NoEscCleanup == [kind |-> "none", original |-> "", handler |-> NoHandler]

\* a gen no registered listener carries
FreshGen(listeners) ==
  CHOOSE n \in 1..(Len(listeners) + 1) :
    /\ \A i \in 1..Len(listeners) : listeners[i].gen # n
    /\ \A m \in 1..(n - 1) : \E i \in 1..Len(listeners) : listeners[i].gen = m

\* document.removeEventListener("keydown", h)
RemoveDocListener(listeners, h) ==
  SelectSeq(listeners, LAMBDA l : l # h)

EscState == [listeners |-> docListeners, inline |-> bodyInline,
             cleanup |-> escCleanup]

\* mutant: the cleanup of the locked branch does not restore the overflow
EscCleanupNoRestore(es) ==
  IF es.cleanup.kind = "remove"
  THEN [es EXCEPT !.listeners = RemoveDocListener(@, es.cleanup.handler),
                  !.cleanup = NoEscCleanup]
  ELSE [es EXCEPT !.cleanup = NoEscCleanup]

\* The cleanup the effect returned: that of the branch with the scroll lock
\* restores the overflow, that of the other branch removes the listener.
EscCleanup(es) ==
  IF es.cleanup.kind = "restore"
  THEN [es EXCEPT !.inline = es.cleanup.original, !.cleanup = NoEscCleanup]
  ELSE IF es.cleanup.kind = "remove"
  THEN [es EXCEPT !.listeners = RemoveDocListener(@, es.cleanup.handler),
                  !.cleanup = NoEscCleanup]
  ELSE es

\* The body of the effect for the props isOpen = open, closeOnEsc = esc,
\* preventScroll = scroll, onClose = h.
EscSetup(es, open, esc, scroll, h, sheet) ==
  LET handleEscape == [onClose |-> h, gen |-> FreshGen(es.listeners)]
      added        == Append(es.listeners, handleEscape)
  IN IF ~esc THEN [es EXCEPT !.cleanup = NoEscCleanup]
     ELSE IF open /\ scroll
     THEN [listeners |-> added, inline |-> "hidden",
           cleanup |-> [kind |-> "restore",
                        original |-> ComputedOverflow(es.inline, sheet),
                        handler |-> handleEscape]]
     ELSE IF open
     THEN [listeners |-> added, inline |-> es.inline,
           cleanup |-> [kind |-> "remove", original |-> "",
                        handler |-> handleEscape]]
     ELSE [es EXCEPT !.cleanup = [kind |-> "remove", original |-> "",
                                  handler |-> handleEscape]]

\* useEffect(..., [isOpen, onClose, closeOnEsc, preventScroll]) at a commit
EscEffect(es, depsChanged, open, esc, scroll, h, sheet) ==
  IF depsChanged THEN EscSetup(EscCleanup(es), open, esc, scroll, h, sheet)
  ELSE es

\* handleEscape: if (e.key === "Escape") onClose()
HandleEscape(l, key, calls) ==
  IF key = "Escape" THEN Append(calls, l.onClose) ELSE calls

RECURSIVE RunDocListeners(_, _, _)
\* the document's keydown listeners run in the order they were added
RunDocListeners(listeners, key, calls) ==
  IF listeners = <<>> THEN calls
  ELSE RunDocListeners(Tail(listeners), key,
                       HandleEscape(Head(listeners), key, calls))

EscRest ==
  /\ modalMounted = FALSE
  /\ closeOnEsc = TRUE
  /\ preventScroll = TRUE
  /\ onCloseProp = 1
  /\ docListeners = <<>>
  /\ escCleanup = NoEscCleanup
  /\ onCloseCalls = <<>>
  /\ overflowBefore = ""
  /\ escOp = "init"

EscQuiet == bodyInline = "" /\ bodySheet = "visible" /\ EscRest

EscInit ==
  /\ bodyInline \in InlineOverflows
  /\ bodySheet \in SheetOverflows
  /\ EscRest

\* the effect's state after a step, with what the step is remembered by
SetEsc(after, op, esc, scroll, h) ==
  /\ docListeners' = after.listeners
  /\ bodyInline' = after.inline
  /\ escCleanup' = after.cleanup
  /\ closeOnEsc' = esc
  /\ preventScroll' = scroll
  /\ onCloseProp' = h
  /\ onCloseCalls' = <<>>
  /\ escOp' = IF after.cleanup.kind = "restore"
              THEN (IF op = "commit" THEN "locked" ELSE op)
              ELSE IF escCleanup.kind = "restore" THEN "unlocked"
              ELSE op
  /\ overflowBefore' = IF escCleanup.kind = "restore" THEN overflowBefore
                       ELSE IF after.cleanup.kind = "restore"
                       THEN ComputedOverflow(bodyInline, bodySheet)
                       ELSE ""
  /\ UNCHANGED bodySheet

\* The Modal's own effect at a commit of the Modal with these props: it runs
\* again when the Modal has just mounted or a dependency has changed.
EscCommit(open, esc, scroll, h) ==
  LET deps  == \/ ~modalMounted
               \/ open # modalOpen \/ h # onCloseProp
               \/ esc # closeOnEsc \/ scroll # preventScroll
      after == EscEffect(EscState, deps, open, esc, scroll, h, bodySheet)
  IN /\ Len(after.listeners) <= MaxListeners
     /\ modalMounted' = TRUE
     /\ SetEsc(after, IF deps THEN "commit" ELSE "same", esc, scroll, h)

\* the Modal's own effect when the Modal unmounts
EscUnmount ==
  /\ modalMounted' = FALSE
  /\ SetEsc(EscCleanup(EscState), "unmount", closeOnEsc, preventScroll,
            onCloseProp)

\* a keydown reaches document
EscKeyDown(key) ==
  /\ onCloseCalls' = RunDocListeners(docListeners, key, <<>>)
  /\ escOp' = "key"
  /\ overflowBefore' = IF escCleanup.kind = "restore" THEN overflowBefore ELSE ""
  /\ UNCHANGED <<modalMounted, closeOnEsc, preventScroll, onCloseProp,
                 docListeners, bodyInline, bodySheet, escCleanup>>

\* the effect's state is not touched, the step is remembered as another's
EscIdle ==
  /\ onCloseCalls' = <<>>
  /\ escOp' = "other"
  /\ overflowBefore' = IF escCleanup.kind = "restore" THEN overflowBefore ELSE ""
  /\ UNCHANGED <<modalMounted, closeOnEsc, preventScroll, onCloseProp,
                 docListeners, bodyInline, bodySheet, escCleanup>>

\* what a commit of the Modal with isOpen = open does to the focus trap and
\* the Portal
ModalTree(open) ==
  IF open /\ ~modalOpen THEN ModalOpen
  ELSE IF ~open /\ modalOpen THEN ModalClose
  ELSE IF open THEN ModalRender(TRUE)
  ELSE UNCHANGED <<trapVars, portalVars, modalVars>>

\* The Modal mounts with these props.
ModalMount(open, esc, scroll, h) ==
  /\ ~modalMounted
  /\ ModalTree(open)
  /\ EscCommit(open, esc, scroll, h)

\* The parent renders the mounted Modal with these props.
ModalSetProps(open, esc, scroll, h) ==
  /\ modalMounted
  /\ ModalTree(open)
  /\ EscCommit(open, esc, scroll, h)

\* The Portal's own re-render after setMounted(true): the Modal does not
\* render, none of its effects runs.
ModalPortalRerender ==
  /\ modalMounted
  /\ ModalRender(FALSE)
  /\ EscIdle

\* The Modal unmounts.
ModalUnmount ==
  /\ modalMounted
  /\ ModalTree(FALSE)
  /\ EscUnmount

\* A key press: the keydown bubbles from the focused element to document.
ModalKeyDown(key, shift) ==
  /\ KeyDown(key, shift)
  /\ EscKeyDown(key)
  /\ UNCHANGED <<portalVars, modalVars>>

ModalUserFocus(el) ==
  /\ UserFocus(el)
  /\ EscIdle
  /\ UNCHANGED <<portalVars, modalVars>>

\* the Modal with the props other than isOpen left as they are
ModalInit ==
  /\ children \in ContainerContents
  /\ TrapRest
  /\ PortalQuiet
  /\ modalOpen = FALSE
  /\ EscQuiet

ModalNext ==
  \/ \E open \in BOOLEAN :
       ModalMount(open, closeOnEsc, preventScroll, onCloseProp)
  \/ \E open \in BOOLEAN :
       ModalSetProps(open, closeOnEsc, preventScroll, onCloseProp)
  \/ ModalPortalRerender
  \/ ModalUnmount
  \/ \E shift \in BOOLEAN : ModalKeyDown("Tab", shift)
  \/ \E el \in Elements : ModalUserFocus(el)

\* the Modal with every combination of its props, around a panel with a
\* close button
ModalEffectInit ==
  /\ children = <<[tag |-> "button", tabindex |-> "none"]>>
  /\ TrapRest
  /\ PortalQuiet
  /\ modalOpen = FALSE
  /\ EscInit

ModalEffectNext ==
  \/ \E open \in BOOLEAN, esc \in BOOLEAN, scroll \in BOOLEAN, h \in OnCloseIds :
       ModalMount(open, esc, scroll, h)
  \/ \E open \in BOOLEAN, esc \in BOOLEAN, scroll \in BOOLEAN, h \in OnCloseIds :
       ModalSetProps(open, esc, scroll, h)
  \/ ModalPortalRerender
  \/ ModalUnmount
  \/ \E key \in {"Tab", "Escape", "Enter"} : ModalKeyDown(key, FALSE)
  \/ \E el \in {Body, Child(1)} : ModalUserFocus(el)

(***************************************************************************)
(* useModal.  setIsOpen queues an update, a value or the updater function  *)
(* of toggle; React applies the queue at the next render.                  *)
(***************************************************************************)
\* const { defaultOpen = false } = options
DefaultOpen(opt) == IF opt = "omitted" THEN FALSE ELSE opt = "true"

\* onOpenChange?.(value): the calls made, after calls
OnOpenChange(calls, has, value) == IF has THEN Append(calls, value) ELSE calls

\* mutant: toggle queues the negation of the isOpen it was rendered with
ToggleQueuesValue(queue, rendered) ==
  Append(queue, IF rendered THEN "false" ELSE "true")

\* toggle: setIsOpen(prev => ...) queues the updater
ToggleQueues(queue, rendered) == Append(queue, "toggle")

\* open, close and toggle, on hs = [queue, calls, rendered]
HookCall(fn, hs, has) ==
  IF fn = "open"
  THEN [queue |-> Append(hs.queue, "true"),
        calls |-> OnOpenChange(hs.calls, has, TRUE)]
  ELSE IF fn = "close"
  THEN [queue |-> Append(hs.queue, "false"),
        calls |-> OnOpenChange(hs.calls, has, FALSE)]
  ELSE [queue |-> ToggleQueues(hs.queue, hs.rendered), calls |-> hs.calls]

\* the updater of toggle, run once, or twice in StrictMode: each run calls
\* onOpenChange with the value it returns
ToggleUpdater(prev, calls, has, strict) ==
  LET next == ~prev
      once == OnOpenChange(calls, has, next)
  IN [state |-> next,
      calls |-> IF strict THEN OnOpenChange(once, has, next) ELSE once]

RECURSIVE ApplyQueue(_, _, _, _, _)
\* React applies the queued updates in order
ApplyQueue(queue, state, calls, has, strict) ==
  IF queue = <<>> THEN [state |-> state, calls |-> calls]
  ELSE LET upd == Head(queue)
           one == IF upd = "toggle"
                  THEN ToggleUpdater(state, calls, has, strict)
                  ELSE [state |-> upd = "true", calls |-> calls]
       IN ApplyQueue(Tail(queue), one.state, one.calls, has, strict)

HookRest ==
  /\ hookIsOpen = DefaultOpen(defaultOpenOpt)
  /\ setIsOpenQueue = <<>>
  /\ onOpenChangeCalls = <<>>
  /\ isOpenChanges = <<>>
  /\ expectedOpen = (defaultOpenOpt = "true")
  /\ lastHookCall = "init"

HookQuiet ==
  /\ defaultOpenOpt = "omitted"
  /\ hasOnOpenChange = FALSE
  /\ strictMode = FALSE
  /\ HookRest

HookInit ==
  /\ defaultOpenOpt \in {"omitted", "true", "false"}
  /\ hasOnOpenChange \in BOOLEAN
  /\ strictMode \in BOOLEAN
  /\ HookRest

\* what isOpen should be after fn, being open before
AfterCall(fn, open) ==
  IF fn = "open" THEN TRUE ELSE IF fn = "close" THEN FALSE ELSE ~open

\* The component calls open, close or toggle in an event handler.
UseModalCall(fn) ==
  /\ Len(setIsOpenQueue) < MaxBatch
  /\ LET fresh == setIsOpenQueue = <<>>
         hs    == [queue |-> setIsOpenQueue,
                   calls |-> IF fresh THEN <<>> ELSE onOpenChangeCalls,
                   rendered |-> hookIsOpen]
         after == HookCall(fn, hs, hasOnOpenChange)
         next  == AfterCall(fn, expectedOpen)
         seen  == IF fresh THEN <<>> ELSE isOpenChanges
     IN /\ setIsOpenQueue' = after.queue
        /\ onOpenChangeCalls' = after.calls
        /\ expectedOpen' = next
        /\ isOpenChanges' = IF next # expectedOpen THEN Append(seen, next)
                            ELSE seen
  /\ lastHookCall' = fn
  /\ UNCHANGED <<hookIsOpen, defaultOpenOpt, hasOnOpenChange, strictMode>>

\* React renders the component: the queued updates are applied.
UseModalRender ==
  /\ setIsOpenQueue # <<>>
  /\ LET after == ApplyQueue(setIsOpenQueue, hookIsOpen, onOpenChangeCalls,
                             hasOnOpenChange, strictMode)
     IN /\ hookIsOpen' = after.state
        /\ onOpenChangeCalls' = after.calls
  /\ setIsOpenQueue' = <<>>
  /\ lastHookCall' = "render"
  /\ UNCHANGED <<defaultOpenOpt, hasOnOpenChange, strictMode, isOpenChanges,
                 expectedOpen>>

HookNext ==
  \/ \E fn \in {"open", "close", "toggle"} : UseModalCall(fn)
  \/ UseModalRender

(***************************************************************************)
(* Footer and IconButton.  An onClick is known by a number, NoOnClick when *)
(* the prop is not given.                                                  *)
(***************************************************************************)
NoOnClick == 0

IconHandlers == {NoOnClick, 1, 2}

IconLists ==
  UNION {[1..n -> [id : {"icon"}, onClick : IconHandlers]] : n \in 0..MaxIcons}

\* IconButton: a button with aria-label and onClick={onClick}
IconButton(label, onClick) == [label |-> label, onClick |-> onClick]

\* The social icons as the Footer renders them: an IconButton with key and
\* label for each icon.
FooterIcons(show, icons) ==
  IF show /\ Len(icons) > 0
  THEN [i \in 1..Len(icons) |-> IconButton(icons[i].id, NoOnClick)]
  ELSE <<>>

\* a click on a button runs its onClick, if it has one
ClickButton(button) ==
  IF button.onClick = NoOnClick THEN <<>> ELSE <<button.onClick>>

FooterRest ==
  /\ footerButtons = FooterIcons(showSocialIcons, socialIcons)
  /\ footerClicked = 0
  /\ footerCalls = <<>>

FooterQuiet == showSocialIcons = TRUE /\ socialIcons = <<>> /\ FooterRest

FooterInit ==
  /\ showSocialIcons \in BOOLEAN
  /\ socialIcons \in IconLists
  /\ FooterRest

\* The Footer is rendered with these props.
FooterRender(show, icons) ==
  /\ showSocialIcons' = show
  /\ socialIcons' = icons
  /\ footerButtons' = FooterIcons(show, icons)
  /\ footerClicked' = 0
  /\ footerCalls' = <<>>

\* The user clicks the button of the i-th social icon.
FooterClick(i) ==
  /\ i \in 1..Len(footerButtons)
  /\ footerClicked' = i
  /\ footerCalls' = ClickButton(footerButtons[i])
  /\ UNCHANGED <<showSocialIcons, socialIcons, footerButtons>>

FooterNext ==
  \/ \E show \in BOOLEAN, icons \in IconLists : FooterRender(show, icons)
  \/ \E i \in 1..MaxIcons : FooterClick(i)

(***************************************************************************)
(* The specifications: the hook in a component of its own, the Portals,    *)
(* the Modal.                                                              *)
(***************************************************************************)
Init == TrapInit /\ PortalQuiet /\ modalOpen = FALSE /\ EscQuiet /\ HookQuiet /\ FooterQuiet

Next == TrapNext /\ UNCHANGED <<portalVars, modalVars, escVars, hookVars, footerVars>>

Spec == Init /\ [][Next]_vars

SelectorSpecInit ==
  SelectorInit /\ PortalQuiet /\ modalOpen = FALSE /\ EscQuiet /\ HookQuiet /\ FooterQuiet

SelectorSpecNext ==
  SelectorNext /\ UNCHANGED <<portalVars, modalVars, escVars, hookVars, footerVars>>

SelectorSpec == SelectorSpecInit /\ [][SelectorSpecNext]_vars

MutationSpecInit ==
  MutationInit /\ PortalQuiet /\ modalOpen = FALSE /\ EscQuiet /\ HookQuiet /\ FooterQuiet

MutationSpecNext ==
  MutationNext /\ UNCHANGED <<portalVars, modalVars, escVars, hookVars, footerVars>>

MutationSpec == MutationSpecInit /\ [][MutationSpecNext]_vars

PortalSpecInit ==
  /\ children = <<>> /\ TrapRest /\ PortalInit /\ modalOpen = FALSE
  /\ EscQuiet /\ HookQuiet /\ FooterQuiet

PortalSpecNext == PortalNext /\ UNCHANGED <<trapVars, modalVars, escVars, hookVars, footerVars>>

PortalSpec == PortalSpecInit /\ [][PortalSpecNext]_vars

PortalPropsSpecInit ==
  /\ children = <<>> /\ TrapRest /\ PortalInit /\ modalOpen = FALSE
  /\ EscQuiet /\ HookQuiet /\ FooterQuiet

PortalPropsSpecNext ==
  PortalPropsNext /\ UNCHANGED <<trapVars, modalVars, escVars, hookVars, footerVars>>

PortalPropsSpec == PortalPropsSpecInit /\ [][PortalPropsSpecNext]_vars

ModalSpecInit == ModalInit /\ HookQuiet /\ FooterQuiet

ModalSpecNext == ModalNext /\ UNCHANGED <<hookVars, footerVars>>

ModalSpec == ModalSpecInit /\ [][ModalSpecNext]_vars

ModalEffectSpecInit == ModalEffectInit /\ HookQuiet /\ FooterQuiet

ModalEffectSpecNext == ModalEffectNext /\ UNCHANGED <<hookVars, footerVars>>

ModalEffectSpec == ModalEffectSpecInit /\ [][ModalEffectSpecNext]_vars

UseModalInit ==
  /\ children = <<>> /\ TrapRest /\ PortalQuiet /\ modalOpen = FALSE
  /\ EscQuiet /\ HookInit /\ FooterQuiet

UseModalNext ==
  HookNext /\ UNCHANGED <<trapVars, portalVars, modalVars, escVars, footerVars>>

UseModalSpec == UseModalInit /\ [][UseModalNext]_vars

FooterSpecInit ==
  /\ children = <<>> /\ TrapRest /\ PortalQuiet /\ modalOpen = FALSE
  /\ EscQuiet /\ HookQuiet /\ FooterInit

FooterSpecNext ==
  FooterNext /\ UNCHANGED <<trapVars, portalVars, modalVars, escVars, hookVars>>

FooterSpec == FooterSpecInit /\ [][FooterSpecNext]_vars

(***************************************************************************)
(* Properties of useFocusTrap, checked under Spec.  The focusable set of   *)
(* a container is the set the hook computes: the descendants its selector  *)
(* matches.                                                                *)
(***************************************************************************)
InFocusableSet(n) == MatchesSelector(children[n])

HasFocusable == \E n \in 1..Len(children) : InFocusableSet(n)

FirstInSet(n) ==
  InFocusableSet(n) /\ \A m \in 1..(n - 1) : ~InFocusableSet(m)

LastInSet(n) ==
  InFocusableSet(n) /\ \A m \in (n + 1)..Len(children) : ~InFocusableSet(m)

\* a session is running on the container that is in the document
SessionOnPanel ==
  cleanupFn.registered /\ cleanupFn.element = Panel /\ panelInDom

\* C1: when the effect has run with isActive true and a live container that
\* has at least one focusable descendant, document focus is on the first
\* focusable descendant in document order.
C1_ActivationFocusesFirst ==
  (lastOp = "activate" /\ HasFocusable)
    => (activeElement.k = "child" /\ FirstInSet(activeElement.i))

\* the activation of a container whose first focusable descendant is neither
\* its first descendant nor its last focusable one
C1_Witness ==
  /\ lastOp = "activate"
  /\ activeElement.k = "child"
  /\ activeElement.i > 1
  /\ ~LastInSet(activeElement.i)

\* C2: while the trap is active, Shift+Tab with focus on the first focusable
\* element moves focus to the last one and Tab with focus on the last moves
\* it to the first, the event's default prevented in both cases.
C2_WrapAtBoundaries ==
  [][ (SessionOnPanel /\ activeElement.k = "child")
        => /\ (lastOp' = "ShiftTab" /\ FirstInSet(activeElement.i))
                => /\ activeElement'.k = "child"
                   /\ LastInSet(activeElement'.i)
                   /\ defaultPrevented'
           /\ (lastOp' = "Tab" /\ LastInSet(activeElement.i))
                => /\ activeElement'.k = "child"
                   /\ FirstInSet(activeElement'.i)
                   /\ defaultPrevented' ]_vars

\* focusable [A, B, C]: a Tab on C has wrapped to A
C2_Witness ==
  /\ Len(children) = 3
  /\ \A n \in 1..3 : InFocusableSet(n) /\ Tabbable(children[n])
  /\ SessionOnPanel
  /\ lastOp = "Tab"
  /\ defaultPrevented
  /\ activeElement = Child(1)

\* C3: a deactivation (isActive goes false, or the owner unmounts) returns
\* document focus to the element that held focus immediately before the
\* activation moved it, provided that element is still attached to the
\* document.  (When no element held focus, document.activeElement is the
\* body, which takes no focus.)
C3_FocusRestored ==
  (/\ lastOp = "teardown"
   /\ anchorBefore.k \in {"trigger", "after", "child"}
   /\ IsAttached(anchorBefore, triggerInDom, panelInDom))
    => activeElement = anchorBefore

\* the host closed the dialog it had opened from the Trigger button: its
\* container left the document and focus is back on the button
C3_Witness ==
  /\ lastOp = "teardown"
  /\ hostMounted
  /\ ~panelInDom
  /\ anchorBefore = Trigger
  /\ activeElement = Trigger

\* C4: in every state in which the trap is active on a container (with a
\* focusable descendant), after any sequence of Tab and Shift+Tab presses
\* document focus is on an element inside the container.
C4_FocusConfined ==
  (SessionOnPanel /\ HasFocusable /\ keysOnly) => activeElement.k = "child"

\* C6: for a container whose focusable set is empty, the activation does not
\* throw and leaves document focus unchanged, and no later keydown throws.
C6_EmptySetHarmless ==
  ~HasFocusable
    => /\ ~threw
       /\ lastOp = "activate" => activeElement = anchorBefore

\* a Tab or Shift+Tab keydown has reached the listener of a container whose
\* focusable set is empty
C6_Witness ==
  /\ ~HasFocusable
  /\ handled
  /\ lastOp \in {"Tab", "ShiftTab"}
  /\ ~threw

\* C7: for a container whose focusable set is empty, the activation installs
\* no keydown listener on the container and registers no teardown.
C7_NoListenerWhenEmpty ==
  ~HasFocusable => (tabListeners = <<>> /\ ~cleanupFn.registered)

(***************************************************************************)
(* Properties of the Modal, checked under ModalSpec.                       *)
(***************************************************************************)
\* C5: whenever the Modal's isOpen has gone from false to true, the focus
\* trap becomes active on the rendered panel: once the Portal has placed the
\* panel and the Modal has gone through a further render, a session runs on
\* the panel (Tab listener attached, teardown registered).
C5_TrapActiveOnPlacedPanel ==
  (modalOpen /\ panelInDom /\ lastOp = "rerender")
    => (tabListeners # <<>> /\ cleanupFn.registered)

(***************************************************************************)
(* Properties of Portal, checked under PortalSpec.                         *)
(***************************************************************************)
NodesWithId(id) == {i \in 1..Len(bodyNodes) : bodyNodes[i].id = id}

\* C8: a container is removed only by the Portal instance that created it,
\* and only when it has no children at that instance's teardown.
C8_OnlyCreatorRemovesEmpty ==
  lastRemoval.happened
    => (lastRemoval.by = lastRemoval.creator /\ lastRemoval.kids = 0)

\* the only Portals that ever used the id of the Portal at place c are those
\* of place c, and the page came without a node of that id
SoleConsumer(c) == cid[c] \notin preExisting /\ users[cid[c]] = {c}

\* C9: a Portal with containerId "portal-root" and createElement true, no
\* #portal-root in the page and no other consumer of the id: once mounted and
\* rendered, exactly one node with the id is in document.body and holds the
\* content; once it has unmounted, no node with the id is left.
C9_SoleConsumerLifecycle ==
  \A c \in Slots :
    (cid[c] = "portal-root" /\ create[c] /\ SoleConsumer(c))
      => /\ phase[c] = "rendered"
              => /\ Cardinality(NodesWithId("portal-root")) = 1
                 /\ HasContent(bodyNodes, c, "portal-root")
         /\ (phase[c] = "idle" /\ inc[c] > 0)
              => NodesWithId("portal-root") = {}

\* the sole consumer, whose content was in #portal-root, has unmounted and
\* removed the node
C9_Witness ==
  \E c \in Slots :
    /\ cid[c] = "portal-root" /\ create[c] /\ SoleConsumer(c)
    /\ portalOp = [op |-> "unmount", slot |-> c, hadContent |-> TRUE]
    /\ lastRemoval.happened
    /\ NodesWithId("portal-root") = {}

\* the Portal at place c unmounts in this step
Unmounting(c) == phase[c] # "idle" /\ phase'[c] = "idle"

\* C10: at every moment at most one node with a given id is in the document,
\* and when two Portals with createElement true share a containerId, the
\* unmount of one while the content of the other is in the node leaves the
\* node, with that content, in place.
C10_SharedNodeKept ==
  /\ [](\A id \in ContainerIds : Cardinality(NodesWithId(id)) <= 1)
  /\ [][ \A c \in Slots, d \in Slots :
           (/\ c # d
            /\ Unmounting(c)
            /\ cid[c] = cid[d] /\ create[c] /\ create[d]
            /\ HasContent(bodyNodes, d, cid[d]))
             => HasContent(bodyNodes', d, cid[d]) ]_vars

\* the Portal that created #shared-root has unmounted and the node is still
\* there, holding the content of the second Portal
C10_Witness ==
  \E c \in Slots, d \in Slots :
    /\ c # d
    /\ cid[c] = "shared-root" /\ cid[d] = "shared-root"
    /\ create[c] /\ create[d]
    /\ portalOp = [op |-> "unmount", slot |-> c, hadContent |-> TRUE]
    /\ \E i \in NodesWithId("shared-root") :
         bodyNodes[i].by = Instance(c) /\ d \in bodyNodes[i].kids

\* C11: in every interleaving of the mount effects, re-renders and unmounts
\* of two Portals sharing one containerId, a Portal with createElement true
\* that has gone through its re-render with mounted = true has its content in
\* the container, whatever the other Portal has done in between.
C11_TeardownNeverBreaksSibling ==
  \A c \in Slots :
    (phase[c] = "rendered" /\ create[c] /\ users[cid[c]] = Slots)
      => HasContent(bodyNodes, c, cid[c])

\* C12: a Portal with createElement false whose containerId names no element
\* of the document renders nothing, creates no node and raises no error, and
\* its teardown removes nothing: no step of such a Portal changes the
\* document's containers.
C12_MissingContainerRendersNothing ==
  [][ \A c \in Slots :
        (/\ portalOp'.slot = c /\ portalOp'.op \in {"mount", "render", "unmount"}
         /\ ~create'[c]
         /\ NodesWithId(cid'[c]) = {})
          => /\ bodyNodes' = bodyNodes
             /\ ~HasContent(bodyNodes', c, cid'[c])
             /\ ~lastRender'.threw
             /\ lastRender'.happened => lastRender'.output = "null"
             /\ ~lastRemoval'.happened ]_vars

\* a Portal with createElement false and no container has gone through its
\* render with mounted = true and rendered nothing
C12_Witness ==
  \E c \in Slots :
    /\ portalOp = [op |-> "render", slot |-> c, hadContent |-> FALSE]
    /\ ~create[c]
    /\ NodesWithId(cid[c]) = {}
    /\ lastRender.mounted /\ lastRender.lookups = 1
    /\ lastRender.output = "null"

\* C13: a render pass with mounted = false returns nothing and makes no DOM
\* access: it does not look the container up, so that it raises no error
\* where there is no document.
C13_NoDomAccessBeforeMount ==
  (lastRender.happened /\ ~lastRender.mounted)
    => /\ lastRender.lookups = 0
       /\ lastRender.output = "null"
       /\ ~lastRender.threw

\* a Portal has been rendered without a document and has returned null
C13_Witness ==
  /\ portalOp.op = "server"
  /\ lastRender.happened /\ ~lastRender.mounted
  /\ lastRender.output = "null"

(***************************************************************************)
(* Properties of the Modal's own effect, checked under ModalEffectSpec.    *)
(***************************************************************************)
\* C14: a press of Escape invokes onClose exactly once when the Modal is
\* open with closeOnEsc true, and not at all when the Modal is closed or
\* closeOnEsc is false, after any open/close cycles and re-renders.
C14_EscapeClosesExactlyWhenOpen ==
  (escOp = "key" /\ lastOp = "Escape")
    => onCloseCalls = IF modalMounted /\ modalOpen /\ closeOnEsc
                      THEN <<onCloseProp>>
                      ELSE <<>>

\* C15: the Modal holds at most one Escape listener on document while it is
\* open and none while it is closed or unmounted, for every combination of
\* closeOnEsc and preventScroll.
C15_EscapeListenerCleanedUp ==
  /\ Len(docListeners) <= 1
  /\ (~modalMounted \/ ~modalOpen) => docListeners = <<>>

\* C16: with preventScroll true, once the scroll lock taken at the opening of
\* the Modal is released (by a close, an unmount or a re-run of the effect),
\* the computed overflow of document.body is what it was before the lock;
\* while the lock is held across re-runs, that value is the one kept for the
\* restore.
C16_ScrollLockRoundTrip ==
  /\ escOp = "unlocked"
       => ComputedOverflow(bodyInline, bodySheet) = overflowBefore
  /\ escCleanup.kind = "restore" => escCleanup.original = overflowBefore

\* the Modal was opened over a page with overflow auto from its style sheet,
\* its effect ran again while it was open, and it has closed
C16_Witness ==
  /\ escOp = "unlocked"
  /\ modalMounted /\ ~modalOpen /\ preventScroll /\ closeOnEsc
  /\ bodySheet = "auto"
  /\ overflowBefore = "auto"
  /\ Len(docListeners) >= 2

\* C17: whenever the Modal is open with preventScroll true, the overflow of
\* document.body is "hidden", for either value of closeOnEsc.
C17_ScrollLockedWhileOpen ==
  (modalMounted /\ modalOpen /\ preventScroll)
    => ComputedOverflow(bodyInline, bodySheet) = "hidden"

(***************************************************************************)
(* Properties of useModal, checked under UseModalSpec.                     *)
(***************************************************************************)
\* C18: isOpen starts as defaultOpen, false when omitted; once React has
\* rendered, isOpen is true after open(), false after close() and negated by
\* toggle(), for every sequence of calls.
C18_IsOpenFollowsCalls ==
  /\ lastHookCall = "init" => hookIsOpen = (defaultOpenOpt = "true")
  /\ setIsOpenQueue = <<>> => hookIsOpen = expectedOpen

\* toggle() and close() and toggle() again, called in one event from a
\* closed modal, have been rendered: isOpen is true
C18_Witness ==
  /\ lastHookCall = "render"
  /\ defaultOpenOpt = "omitted"
  /\ isOpenChanges = <<TRUE, FALSE, TRUE>>
  /\ hookIsOpen

Count(seq, v) == Cardinality({i \in 1..Len(seq) : seq[i] = v})

\* C19: once React has rendered, onOpenChange has been invoked exactly once
\* per change of isOpen, with the new value, and not by a call that left
\* isOpen as it was.
C19_OnOpenChangeOncePerChange ==
  (hasOnOpenChange /\ lastHookCall = "render")
    => \A v \in BOOLEAN :
         Count(onOpenChangeCalls, v) = Count(isOpenChanges, v)

(***************************************************************************)
(* Properties of Footer, checked under FooterSpec.                         *)
(***************************************************************************)
\* C20: with showSocialIcons true, a click on the rendered button of a
\* social icon invokes the onClick given for that icon in socialIcons.
C20_IconClickInvokesOnClick ==
  (/\ showSocialIcons
   /\ footerClicked # 0
   /\ socialIcons[footerClicked].onClick # NoOnClick)
    => footerCalls = <<socialIcons[footerClicked].onClick>>

(***************************************************************************)
(* Further properties of useFocusTrap, checked under Spec.                 *)
(***************************************************************************)
\* C21: in every reachable state at most one Tab listener of useFocusTrap is
\* attached to the container, and none once the session is deactivated
\* (isActive false, or the host unmounted, the teardown done).
C21_AtMostOneListener ==
  /\ Len(tabListeners) <= 1
  /\ (~isActive \/ ~hostMounted \/ ~cleanupFn.registered) => tabListeners = <<>>

\* a session was deactivated with the container still in the document: its
\* listener is gone
C21_Witness ==
  /\ lastOp = "teardown"
  /\ hostMounted /\ ~isActive /\ panelInDom
  /\ HasFocusable
  /\ tabListeners = <<>>

\* C22: the teardown of useFocusTrap runs exactly once per activation cycle:
\* a step that ends a session runs it once, and no other step runs it, in
\* particular none that ends a cycle skipped for isActive false or a missing
\* container.
C22_TeardownOncePerCycle ==
  [][ teardownsRun' = IF /\ cleanupFn.registered
                         /\ ~cleanupFn'.registered \/ lastOp' = "activate"
                      THEN 1 ELSE 0 ]_vars

\* a session has been torn down, after a skipped cycle had left nothing to
\* tear down
C22_Witness ==
  /\ teardownsRun = 1
  /\ lastOp = "teardown"
  /\ hostMounted /\ ~isActive
  /\ activeElement = Trigger

\* C23: when the element the ref resolves to changes while isActive stays
\* true, the trap follows the container: after the change a session runs on
\* the new element, with its Tab listener.
C23_TrapFollowsContainer ==
  (lastOp = "replace" /\ isActive)
    => (SessionOnPanel /\ tabListeners # <<>>)

\* C24: a run of the effect with isActive false, or with isActive true and
\* ref.current null, is a no-op: it attaches no listener, records no anchor
\* and registers no teardown, and, when no session was there to tear down
\* first, it leaves document focus where the commit put it and raises
\* nothing.
C24_SkippedCycleIsNoOp ==
  [][ (/\ hostMounted'
       /\ ~hostMounted \/ isActive' # isActive
       /\ ~isActive' \/ refCurrent' = Null)
        => /\ cleanupFn' = NoCleanup
           /\ Len(tabListeners') <= Len(tabListeners)
           /\ ~cleanupFn.registered
                => /\ tabListeners' = tabListeners
                   /\ threw' = threw
                   /\ activeElement' =
                        IF activeElement.k = "child" /\ panelInDom /\ ~panelInDom'
                        THEN Body ELSE activeElement ]_vars

\* the effect has run with isActive true and no container: focus is still on
\* the Trigger button
C24_Witness ==
  /\ lastOp = "skip"
  /\ hostMounted /\ isActive /\ refCurrent = Null
  /\ HasFocusable
  /\ activeElement = Trigger
  /\ cleanupFn = NoCleanup

\* the restoration anchor of the running session is not in the document
\* after this step's DOM changes
AnchorGone ==
  LET a == IF panelInDom /\ ~panelInDom' THEN StaleRef(cleanupFn.anchor)
           ELSE cleanupFn.anchor
  IN /\ a.k \in {"trigger", "after", "child", "stale"}
     /\ ~IsAttached(a, triggerInDom', panelInDom')

\* C25: when the restoration anchor is no longer in the document at the
\* teardown, the teardown still removes the listener, raises nothing and
\* does not move document focus.
C25_MissingAnchorSkipsRestore ==
  [][ (cleanupFn.registered /\ lastOp' = "teardown" /\ AnchorGone)
        => /\ tabListeners' = <<>>
           /\ ~cleanupFn'.registered
           /\ threw' = threw
           /\ activeElement' =
                IF activeElement.k = "child" /\ panelInDom /\ ~panelInDom'
                THEN Body ELSE activeElement ]_vars

\* the Trigger button was removed during the session; the session has been
\* torn down with the container still rendered, focus is where it was
C25_Witness ==
  /\ lastOp = "teardown"
  /\ anchorBefore = Trigger /\ ~triggerInDom
  /\ panelInDom /\ activeElement.k = "child"
  /\ tabListeners = <<>>
  /\ ~threw

\* C26: handleTabKey leaves every other key press alone: a Tab with focus
\* not on the last element, a Shift+Tab with focus not on the first and a
\* key other than Tab have their default action: the Tab moves focus as the
\* browser moves it, the other key leaves focus where it is.
C26_OtherKeysPassThrough ==
  [][ (SessionOnPanel /\ handled' /\ activeElement.k = "child")
        => /\ (lastOp' = "Tab" /\ ~LastInSet(activeElement.i))
                => /\ ~defaultPrevented'
                   /\ activeElement' = NativeTab(activeElement, FALSE, children,
                                                 triggerInDom, panelInDom)
           /\ (lastOp' = "ShiftTab" /\ ~FirstInSet(activeElement.i))
                => /\ ~defaultPrevented'
                   /\ activeElement' = NativeTab(activeElement, TRUE, children,
                                                 triggerInDom, panelInDom)
           /\ lastOp' = "Escape"
                => /\ ~defaultPrevented'
                   /\ activeElement' = activeElement ]_vars

\* in a session on three buttons, a Tab on the first one moved focus to the
\* second, unprevented
C26_Witness ==
  /\ SessionOnPanel /\ handled
  /\ Len(children) = 3
  /\ \A n \in 1..3 : InFocusableSet(n) /\ Tabbable(children[n])
  /\ lastOp = "Tab" /\ ~defaultPrevented
  /\ activeElement = Child(2)

\* the elements the focusable set is said to hold: the interactive ones and
\* those with an explicit tab index that is not negative
Listed(kind) == kind.tag \in InteractiveTags \/ kind.tabindex = "0"

ListedElements ==
  LET IsListed(n) == Listed(children[n])
      idx == SelectSeq([n \in 1..Len(children) |-> n], IsListed)
  IN [j \in 1..Len(idx) |-> Child(idx[j])]

\* C27: the focusable set computed at activation is exactly the container's
\* descendants, in document order, that are buttons, elements with an href,
\* inputs, selects, text areas or elements with an explicit non-negative tab
\* index; an element whose only qualification is a negative tab index (-1 or
\* -2) is not in the set, so it is not focused at activation and is not a
\* boundary of the session.
C27_FocusableSetIsTheListedOne ==
  (lastOp = "activate" /\ SessionOnPanel)
    => /\ FocusableElements(children) = ListedElements
       /\ cleanupFn.first = FirstFocusable(ListedElements)
       /\ cleanupFn.last = LastFocusable(ListedElements)
       /\ activeElement.k = "child" => Listed(children[activeElement.i])

\* C28: the focusable sequence is captured once at activation.  At an
\* activation the boundaries are the first and the last element of the
\* focusable set of that moment; a change of the container's content during
\* the session (an element added, removed, made focusable or not) leaves the
\* session's boundaries and its listener as they are; and a Tab wraps
\* exactly when focus is on the boundary captured at activation, to the
\* other captured boundary, whatever the focusable set has become.
C28_BoundariesCapturedAtActivation ==
  [][ /\ lastOp' = "activate"
        => /\ cleanupFn'.first = FirstFocusable(FocusableElements(children'))
           /\ cleanupFn'.last = LastFocusable(FocusableElements(children'))
      /\ (cleanupFn.registered /\ lastOp' = "mutate")
        => /\ cleanupFn' = cleanupFn
           /\ tabListeners' = tabListeners
      /\ (SessionOnPanel /\ handled' /\ lastOp' \in {"Tab", "ShiftTab"})
        => LET from == IF lastOp' = "Tab" THEN cleanupFn.last ELSE cleanupFn.first
               to   == IF lastOp' = "Tab" THEN cleanupFn.first ELSE cleanupFn.last
           IN /\ defaultPrevented' = (activeElement = from)
              /\ activeElement = from
                   => activeElement' = FocusCall(to, activeElement, children,
                                                 triggerInDom, panelInDom).focus
    ]_vars

\* a button was added after the last one during the session, and a Tab on the
\* last one of the activation wrapped to the first
C28_Witness ==
  /\ SessionOnPanel /\ handled
  /\ lastOp = "Tab" /\ defaultPrevented
  /\ activeElement = cleanupFn.first
  /\ cleanupFn.first # cleanupFn.last
  /\ LastFocusable(FocusableElements(children)) # cleanupFn.last

\* C29: Portal never leaves its container orphaned: a node that a Portal
\* created is in the document only while some consumer of its id is mounted;
\* once every consumer of the id has unmounted, in whatever order, the node
\* is gone.
C29_NoOrphanedContainer ==
  \A i \in 1..Len(bodyNodes) :
    bodyNodes[i].by # Html
      => \E c \in Slots : phase[c] # "idle" /\ cid[c] = bodyNodes[i].id

\* C30: when a mounted Portal's containerId or createElement changes, with
\* createElement true afterwards, its content is in the node with the new id
\* once the commit and its effects are done: after them React has no render
\* of the Portal scheduled, so what is not rendered then is rendered only when
\* something outside re-renders the Portal.
C30_PropsChangeRendersInNewNode ==
  \A c \in Slots :
    (portalOp.op = "props" /\ portalOp.slot = c /\ create[c])
      => HasContent(bodyNodes, c, cid[c])

====
